---- MODULE Spec2Model ----
(***************************************************************************)
(* Model of src/index.js of black-scholes-calc: normCdf, blackScholesCall, *)
(* blackScholesPut, blackScholesWarrantCall and the export list.           *)
(*                                                                         *)
(* A JavaScript number is modelled as a record [k, n, d]:                  *)
(*   k = "fin"  : the rational n/d in lowest terms, d > 0                  *)
(*   k = "inf"  : +Infinity (n = 1) or -Infinity (n = -1)                  *)
(*   k = "nan"  : NaN                                                      *)
(*   k = "undef": an omitted (undefined) argument                          *)
(* +, -, *, / follow IEEE-754 on the special values and are exact on the   *)
(* finite ones.  Every zero is +0: the model's inputs hold no -0, and the  *)
(* only -0 the code derives from them (the exponent -d*t) goes to          *)
(* Math.exp, which ignores the sign of zero.  Math.log, Math.exp,          *)
(* Math.sqrt and erf are computed to three decimals.                       *)
(***************************************************************************)
EXTENDS Integers, Sequences, FiniteSets

VARIABLES in, fn, result, imp

vars == <<in, fn, result, imp>>

-----------------------------------------------------------------------------
(* JavaScript numbers *)

Abs(i) == IF i < 0 THEN -i ELSE i

Sgn(i) == IF i < 0 THEN -1 ELSE IF i > 0 THEN 1 ELSE 0

RECURSIVE GCD(_, _)
GCD(a, b) == IF b = 0 THEN a ELSE GCD(b, a % b)

Fin(n, d) ==
    LET g == GCD(Abs(n), d)
    IN  [k |-> "fin", n |-> (Abs(n) \div g) * Sgn(n), d |-> d \div g]

NaN == [k |-> "nan", n |-> 0, d |-> 1]

PosInf == [k |-> "inf", n |-> 1, d |-> 1]

NegInf == [k |-> "inf", n |-> -1, d |-> 1]

Undef == [k |-> "undef", n |-> 0, d |-> 1]

Inf(s) == IF s < 0 THEN NegInf ELSE PosInf

Zero == Fin(0, 1)

One == Fin(1, 1)

Two == Fin(2, 1)

Half == Fin(1, 2)

IsNaN(a) == a.k = "nan"

IsInf(a) == a.k = "inf"

IsFin(a) == a.k = "fin"

\* unary minus
Neg(a) == IF a.k \in {"fin", "inf"} THEN [a EXCEPT !.n = -a.n] ELSE NaN

\* a + b
Add(a, b) ==
    IF a.k \notin {"fin", "inf"} \/ b.k \notin {"fin", "inf"} THEN NaN
    ELSE IF IsInf(a) /\ IsInf(b) THEN (IF a.n = b.n THEN a ELSE NaN)
    ELSE IF IsInf(a) THEN a
    ELSE IF IsInf(b) THEN b
    ELSE LET g == GCD(a.d, b.d)
         IN  Fin(a.n * (b.d \div g) + b.n * (a.d \div g), (a.d \div g) * b.d)

\* a - b
Sub(a, b) == Add(a, Neg(b))

\* a * b
Mul(a, b) ==
    IF a.k \notin {"fin", "inf"} \/ b.k \notin {"fin", "inf"} THEN NaN
    ELSE IF IsInf(a) \/ IsInf(b)
         THEN (IF a.n = 0 \/ b.n = 0 THEN NaN ELSE Inf(Sgn(a.n) * Sgn(b.n)))
    ELSE LET g1 == GCD(Abs(a.n), b.d)
             g2 == GCD(Abs(b.n), a.d)
         IN  Fin((a.n \div g1) * (b.n \div g2), (a.d \div g2) * (b.d \div g1))

\* a / b
Div(a, b) ==
    IF a.k \notin {"fin", "inf"} \/ b.k \notin {"fin", "inf"} THEN NaN
    ELSE IF IsInf(a)
         THEN (IF IsInf(b) THEN NaN
               ELSE Inf(a.n * (IF b.n < 0 THEN -1 ELSE 1)))
    ELSE IF IsInf(b) THEN Zero
    ELSE IF b.n = 0 THEN (IF a.n = 0 THEN NaN ELSE Inf(a.n))
    ELSE Mul(a, Fin(Sgn(b.n) * b.d, Abs(b.n)))

\* a < b on finite and infinite numbers (FALSE when either is NaN)
Less(a, b) ==
    /\ a.k \in {"fin", "inf"}
    /\ b.k \in {"fin", "inf"}
    /\ LET c == Sub(a, b) IN IF IsNaN(c) THEN FALSE ELSE c.n < 0

\* a parameter written p = dflt in the source
Default(v, dflt) == IF v = Undef THEN dflt ELSE v

-----------------------------------------------------------------------------
(* Math.log, Math.exp, Math.sqrt, Math.pow(., 2) and mathjs erf, to three  *)
(* decimals.  Each keeps the special values of the function it models.     *)

\* floor(1000 * n / d) for n >= 0, d > 0, by long division
Milli(n, d) ==
    LET q  == n \div d
        r0 == n % d
        a  == (r0 * 10) \div d
        r1 == (r0 * 10) % d
        b  == (r1 * 10) \div d
        r2 == (r1 * 10) % d
        c  == (r2 * 10) \div d
    IN  q * 1000 + a * 100 + b * 10 + c

\* floor(sqrt(n)) for n >= 0, by bisection on lo..hi
RECURSIVE ISqrt(_, _, _)
ISqrt(n, lo, hi) ==
    IF lo >= hi THEN lo
    ELSE LET mid == (lo + hi + 1) \div 2
         IN  IF mid * mid <= n THEN ISqrt(n, mid, hi) ELSE ISqrt(n, lo, mid - 1)

\* Math.sqrt(x): NaN below zero, +Infinity at +Infinity, else sqrt(x) in
\* thousandths (the square root of floor(10^6 * x), x < 2000)
MathSqrt(x) ==
    IF IsFin(x) /\ x.n >= 0
    THEN Fin(ISqrt(Milli(Milli(x.n, x.d), 1), 0, 46340), 1000)
    ELSE IF x = PosInf THEN PosInf
    ELSE NaN

\* Math.pow(x, 2)
MathPow2(x) == Mul(x, x)

\* sum over odd k of z^k / k in thousandths, z in thousandths, 0 <= z < 1000
RECURSIVE AtanhSeries(_, _, _)
AtanhSeries(pow, z, k) ==
    IF pow = 0 \/ k > 41 THEN 0
    ELSE pow \div k + AtanhSeries((((pow * z) \div 1000) * z) \div 1000, z, k + 2)

\* Math.log(x): NaN below zero, -Infinity at 0, +Infinity at +Infinity, else
\* ln x = 2 atanh((x - 1) / (x + 1)) in thousandths
MathLog(x) ==
    IF IsFin(x) /\ x.n > 0
    THEN LET z == Milli(Abs(x.n - x.d), x.n + x.d)
         IN  Fin(Sgn(x.n - x.d) * 2 * AtanhSeries(z, z, 1), 1000)
    ELSE IF IsFin(x) /\ x.n = 0 THEN NegInf
    ELSE IF x = PosInf THEN PosInf
    ELSE NaN

\* sum from k of the terms term * x / k / (k + 1) ... of the exponential
\* series, in thousandths, x in thousandths
RECURSIVE ExpSeries(_, _, _)
ExpSeries(term, x, k) ==
    IF term = 0 \/ k > 40 THEN 0
    ELSE term + ExpSeries((term * x) \div (1000 * k), x, k + 1)

\* Math.exp(x): 0 at -Infinity, +Infinity at +Infinity, NaN at NaN, else e^x
\* in thousandths (|x| <= 6), with e^(-x) = 1 / e^x
MathExp(x) ==
    IF IsFin(x)
    THEN LET e == ExpSeries(1000, Milli(Abs(x.n), x.d), 1)
         IN  IF x.n >= 0 THEN Fin(e, 1000) ELSE Fin(1000000 \div e, 1000)
    ELSE IF x = PosInf THEN PosInf
    ELSE IF x = NegInf THEN Zero
    ELSE NaN

\* the magnitude above which erf is 1 in double precision (erfc(6) < 2^-54)
ErfSat == 6

\* erf(y) in thousandths for 0 <= y < ErfSat, y in thousandths:
\* 1 - 1 / (1 + 0.278 y + 0.230 y^2 + 0.001 y^3 + 0.078 y^4)^4, below 1
ErfMilli(y) ==
    LET h1 == (78 * y) \div 1000 + 1
        h2 == (h1 * y) \div 1000 + 230
        h3 == (h2 * y) \div 1000 + 278
        p  == (h3 * y) \div 1000 + 1000
        r  == 1000000 \div p
        r2 == (r * r) \div 1000
        r4 == (r2 * r2) \div 1000
    IN  IF 1000 - r4 > 999 THEN 999 ELSE 1000 - r4

\* erf of mathjs: sign(x) * erf(|x|), sign(x) at and above the saturation
\* magnitude (so at +-Infinity), NaN at NaN
Erf(x) ==
    IF IsInf(x) THEN Fin(x.n, 1)
    ELSE IF ~IsFin(x) THEN NaN
    ELSE IF Abs(x.n) >= ErfSat * x.d THEN Fin(Sgn(x.n), 1)
    ELSE Fin(Sgn(x.n) * ErfMilli(Milli(Abs(x.n), x.d)), 1000)

-----------------------------------------------------------------------------
(* src/index.js *)

\* seeded fault: the factor 0.5 dropped
normCdfNoHalf(x, mu0, sigma0) ==
    LET mu    == Default(mu0, Zero)
        sigma == Default(sigma0, One)
    IN  Sub(One, Erf(Div(Sub(mu, x), Mul(MathSqrt(Two), sigma))))

\* const normCdf = (x, mu = 0, sigma = 1) =>
\*   0.5 * (1 - erf((mu - x) / (Math.sqrt(2) * sigma)))
normCdf(x, mu0, sigma0) ==
    LET mu    == Default(mu0, Zero)
        sigma == Default(sigma0, One)
    IN  Mul(Half, Sub(One, Erf(Div(Sub(mu, x), Mul(MathSqrt(Two), sigma)))))

\* seeded fault: d2 = d1 + sigma * sqrt(t)
blackScholesCallD2Plus(S, K, sigma, r, t, d0) ==
    LET d  == Default(d0, Zero)
        d1 == Div(Add(MathLog(Div(S, K)),
                      Mul(Add(Sub(r, d), Div(MathPow2(sigma), Two)), t)),
                  Mul(sigma, MathSqrt(t)))
        d2 == Add(d1, Mul(sigma, MathSqrt(t)))
    IN  Sub(Mul(Mul(S, MathExp(Mul(Neg(d), t))), normCdf(d1, Undef, Undef)),
            Mul(Mul(K, MathExp(Mul(Neg(r), t))), normCdf(d2, Undef, Undef)))

\* const blackScholesCall = (S, K, sigma, r, t, d = 0) => ...
blackScholesCall(S, K, sigma, r, t, d0) ==
    LET d  == Default(d0, Zero)
        d1 == Div(Add(MathLog(Div(S, K)),
                      Mul(Add(Sub(r, d), Div(MathPow2(sigma), Two)), t)),
                  Mul(sigma, MathSqrt(t)))
        d2 == Sub(d1, Mul(sigma, MathSqrt(t)))
    IN  Sub(Mul(Mul(S, MathExp(Mul(Neg(d), t))), normCdf(d1, Undef, Undef)),
            Mul(Mul(K, MathExp(Mul(Neg(r), t))), normCdf(d2, Undef, Undef)))

\* seeded fault: normCdf(d2) and normCdf(d1) in place of normCdf(-d2), normCdf(-d1)
blackScholesPutUnnegated(S, K, sigma, r, t, d0) ==
    LET d  == Default(d0, Zero)
        d1 == Div(Add(MathLog(Div(S, K)),
                      Mul(Add(Sub(r, d), Div(MathPow2(sigma), Two)), t)),
                  Mul(sigma, MathSqrt(t)))
        d2 == Sub(d1, Mul(sigma, MathSqrt(t)))
    IN  Sub(Mul(Mul(K, MathExp(Mul(Neg(r), t))), normCdf(d2, Undef, Undef)),
            Mul(Mul(S, MathExp(Mul(Neg(d), t))), normCdf(d1, Undef, Undef)))

\* const blackScholesPut = (S, K, sigma, r, t, d = 0) => ...
blackScholesPut(S, K, sigma, r, t, d0) ==
    LET d  == Default(d0, Zero)
        d1 == Div(Add(MathLog(Div(S, K)),
                      Mul(Add(Sub(r, d), Div(MathPow2(sigma), Two)), t)),
                  Mul(sigma, MathSqrt(t)))
        d2 == Sub(d1, Mul(sigma, MathSqrt(t)))
    IN  Sub(Mul(Mul(K, MathExp(Mul(Neg(r), t))), normCdf(Neg(d2), Undef, Undef)),
            Mul(Mul(S, MathExp(Mul(Neg(d), t))), normCdf(Neg(d1), Undef, Undef)))

\* seeded fault: the price multiplied by q
blackScholesWarrantCallTimesQ(S, K, sigma, r, t, q0) ==
    LET q  == Default(q0, One)
        d1 == Div(Add(MathLog(Div(S, K)),
                      Mul(Add(r, Div(MathPow2(sigma), Two)), t)),
                  Mul(sigma, MathSqrt(t)))
        d2 == Sub(d1, Mul(sigma, MathSqrt(t)))
    IN  Mul(Sub(Mul(S, normCdf(d1, Undef, Undef)),
                Mul(Mul(K, MathExp(Mul(Neg(r), t))), normCdf(d2, Undef, Undef))),
            q)

\* const blackScholesWarrantCall = (S, K, sigma, r, t, q = 1) => ...
blackScholesWarrantCall(S, K, sigma, r, t, q0) ==
    LET q  == Default(q0, One)
        d1 == Div(Add(MathLog(Div(S, K)),
                      Mul(Add(r, Div(MathPow2(sigma), Two)), t)),
                  Mul(sigma, MathSqrt(t)))
        d2 == Sub(d1, Mul(sigma, MathSqrt(t)))
    IN  Div(Sub(Mul(S, normCdf(d1, Undef, Undef)),
                Mul(Mul(K, MathExp(Mul(Neg(r), t))), normCdf(d2, Undef, Undef))),
            q)

\* seeded fault: normCdf added to the export list
ExportsWithNormCdf ==
    {"blackScholesCall", "blackScholesPut", "blackScholesWarrantCall", "default",
     "normCdf"}

\* export { blackScholesCall, blackScholesPut, blackScholesWarrantCall };
\* export default blackScholesCall;
Exports == {"blackScholesCall", "blackScholesPut", "blackScholesWarrantCall", "default"}

-----------------------------------------------------------------------------
(* The inputs.  A state holds one argument list for the pricing functions  *)
(* (S, K, sigma, r, t, then d for the call and the put, q for the warrant) *)
(* and one for normCdf (x, mu, sd); Undef is an omitted argument.          *)

MaxPrice == 3

MaxRate == 1

MaxTerm == 2

MaxQ == 2

MaxX == 3

Prices == {Fin(i, 1) : i \in 1..MaxPrice}

Vols == {Zero, Fin(1, 10), Fin(1, 2)}

Rates == {Fin(i, 10) : i \in -MaxRate..MaxRate}

Terms == {Fin(i, 1) : i \in 0..MaxTerm}

Yields == {Undef, Zero, Fin(1, 10)}

Ratios == {Undef} \cup {Fin(i, 1) : i \in 0..MaxQ}

Points == {Fin(i, 2) : i \in -MaxX..MaxX}

Means == {Undef, Zero, One, Fin(-1, 2)}

Devs == {Undef, Zero, One, Two}

\* the names a caller may ask the module for
Names == Exports \cup {"normCdf", "normalCdf"}

NoImport == [name |-> "", bound |-> FALSE]

PricingInputs ==
    [S : Prices, K : Prices, sigma : Vols, r : Rates, t : Terms, d : Yields,
     q : Ratios, x : {Zero}, mu : {Undef}, sd : {Undef}]

CdfInputs ==
    [S : {One}, K : {One}, sigma : {One}, r : {Zero}, t : {One}, d : {Undef},
     q : {Undef}, x : Points, mu : Means, sd : Devs]

Init ==
    /\ in \in PricingInputs \cup CdfInputs
    /\ fn = "none"
    /\ result = Undef
    /\ imp = NoImport

\* normCdf(x, mu, sd)
CallNormCdf ==
    /\ fn = "none"
    /\ fn' = "normCdf"
    /\ result' = normCdf(in.x, in.mu, in.sd)
    /\ UNCHANGED <<in, imp>>

\* blackScholesCall(S, K, sigma, r, t, d)
CallBlackScholesCall ==
    /\ fn = "none"
    /\ fn' = "blackScholesCall"
    /\ result' = blackScholesCall(in.S, in.K, in.sigma, in.r, in.t, in.d)
    /\ UNCHANGED <<in, imp>>

\* blackScholesPut(S, K, sigma, r, t, d)
CallBlackScholesPut ==
    /\ fn = "none"
    /\ fn' = "blackScholesPut"
    /\ result' = blackScholesPut(in.S, in.K, in.sigma, in.r, in.t, in.d)
    /\ UNCHANGED <<in, imp>>

\* blackScholesWarrantCall(S, K, sigma, r, t, q)
CallBlackScholesWarrantCall ==
    /\ fn = "none"
    /\ fn' = "blackScholesWarrantCall"
    /\ result' = blackScholesWarrantCall(in.S, in.K, in.sigma, in.r, in.t, in.q)
    /\ UNCHANGED <<in, imp>>

\* import { name } from the module: bound to a function iff name is exported
Import(name) ==
    /\ fn = "none"
    /\ fn' = "import"
    /\ imp' = [name |-> name, bound |-> name \in Exports]
    /\ UNCHANGED <<in, result>>

Next ==
    \/ CallNormCdf
    \/ CallBlackScholesCall
    \/ CallBlackScholesPut
    \/ CallBlackScholesWarrantCall
    \/ \E name \in Names : Import(name)

Spec == Init /\ [][Next]_vars

-----------------------------------------------------------------------------
(* The formulas of the specification, written from its text *)

\* the standard normal distribution function, 0.5 * (1 + erf(x / sqrt 2))
Phi(x) == Mul(Half, Add(One, Erf(Div(x, MathSqrt(Two)))))

\* the dividend yield in effect: 0 when the sixth argument is omitted
YieldOf(d) == IF d = Undef THEN Zero ELSE d

\* d1 = (ln(S/K) + (r - d + sigma^2/2) t) / (sigma sqrt t)
RefD1(S, K, sigma, r, t, d) ==
    Div(Add(MathLog(Div(S, K)), Mul(Add(Sub(r, d), Div(Mul(sigma, sigma), Two)), t)),
        Mul(sigma, MathSqrt(t)))

\* d2 = d1 - sigma sqrt t
RefD2(S, K, sigma, r, t, d) ==
    Sub(RefD1(S, K, sigma, r, t, d), Mul(sigma, MathSqrt(t)))

\* S e^(-d t)
SpotTerm(S, t, d) == Mul(S, MathExp(Neg(Mul(d, t))))

\* K e^(-r t)
StrikeTerm(K, r, t) == Mul(K, MathExp(Neg(Mul(r, t))))

ValidInputs == Less(Zero, in.S) /\ Less(Zero, in.K) /\ Less(Zero, in.sigma) /\ Less(Zero, in.t)

IsNumber(v) == v.k \in {"fin", "inf", "nan"}

\* C1: put-call parity: for valid inputs (S, K, sigma, t > 0) the call price
\* minus the put price of the same six arguments is S e^(-d t) - K e^(-r t)
\* (exactly, in the model's exact arithmetic, hence within the tolerance).
C1_PutCallParity ==
    (fn = "blackScholesCall" /\ ValidInputs) =>
        Sub(result, blackScholesPut(in.S, in.K, in.sigma, in.r, in.t, in.d))
            = Sub(SpotTerm(in.S, in.t, YieldOf(in.d)), StrikeTerm(in.K, in.r, in.t))

C1_Witness ==
    /\ fn = "blackScholesCall"
    /\ ValidInputs
    /\ in.d = Fin(1, 10)
    /\ IsFin(result) /\ result.n > 0
    /\ Less(Zero, blackScholesPut(in.S, in.K, in.sigma, in.r, in.t, in.d))

\* C2: warrant identity: the warrant price with q = 1, and with q omitted, is
\* the call price with d = 0, and with d omitted, for all S, K, sigma, r, t
\* (the same value, a NaN where the call is NaN).
C2_WarrantIdentity ==
    (fn = "blackScholesWarrantCall" /\ in.q \in {One, Undef}) =>
        /\ result = blackScholesCall(in.S, in.K, in.sigma, in.r, in.t, Zero)
        /\ result = blackScholesCall(in.S, in.K, in.sigma, in.r, in.t, Undef)

C2_Witness ==
    /\ fn = "blackScholesWarrantCall"
    /\ in.q = One
    /\ in.r # Zero
    /\ IsFin(result) /\ result.n > 0 /\ result.d > 1

\* C3: blackScholesCall returns S e^(-d t) Phi(d1) - K e^(-r t) Phi(d2) with
\* d1, d2 as the specification writes them and d = 0 when omitted.
C3_CallFormula ==
    fn = "blackScholesCall" =>
        LET d == YieldOf(in.d)
        IN  result = Sub(Mul(SpotTerm(in.S, in.t, d),
                             Phi(RefD1(in.S, in.K, in.sigma, in.r, in.t, d))),
                         Mul(StrikeTerm(in.K, in.r, in.t),
                             Phi(RefD2(in.S, in.K, in.sigma, in.r, in.t, d))))

C3_Witness ==
    /\ fn = "blackScholesCall"
    /\ in.d = Undef
    /\ in.sigma = Fin(1, 2)
    /\ in.t = Two
    /\ IsFin(result) /\ result.n > 0

\* C4: blackScholesPut returns K e^(-r t) Phi(-d2) - S e^(-d t) Phi(-d1) with
\* the d1, d2 of the call for the same six inputs, d = 0 when omitted.
C4_PutFormula ==
    fn = "blackScholesPut" =>
        LET d == YieldOf(in.d)
        IN  result = Sub(Mul(StrikeTerm(in.K, in.r, in.t),
                             Phi(Neg(RefD2(in.S, in.K, in.sigma, in.r, in.t, d)))),
                         Mul(SpotTerm(in.S, in.t, d),
                             Phi(Neg(RefD1(in.S, in.K, in.sigma, in.r, in.t, d)))))

C4_Witness ==
    /\ fn = "blackScholesPut"
    /\ in.d = Fin(1, 10)
    /\ in.sigma = Fin(1, 2)
    /\ in.t = Two
    /\ IsFin(result) /\ result.n > 0

C5_Case ==
    /\ fn = "blackScholesCall"
    /\ in.sigma = Zero
    /\ in.t = One
    /\ in.d = Zero

\* C5 as the specification states it: blackScholesCall(S, K, 0, r, 1, 0)
\* returns NaN or +Infinity or -Infinity.
C5_DegenerateIsNaNOrInfinite ==
    C5_Case => (IsNaN(result) \/ IsInf(result))

\* C5, amended: blackScholesCall(S, K, 0, r, 1, 0) returns a number: NaN when
\* ln(S/K) + r = 0, S - K e^(-r) when ln(S/K) + r > 0, and 0 when
\* ln(S/K) + r < 0; it is never infinite.
C5_DegenerateValue ==
    C5_Case =>
        LET m == Add(MathLog(Div(in.S, in.K)), in.r)
        IN  /\ IsNumber(result)
            /\ ~IsInf(result)
            /\ m = Zero => IsNaN(result)
            /\ Less(Zero, m) => result = Sub(in.S, StrikeTerm(in.K, in.r, One))
            /\ Less(m, Zero) => result = Zero

C5_Witness ==
    /\ C5_Case
    /\ IsFin(result)
    /\ result.n > 0

\* C6: the standard normal CDF (mu and sigma omitted) is symmetric:
\* normCdf(x) = 1 - normCdf(-x), and normCdf(0) = 0.5.
C6_CdfSymmetry ==
    (fn = "normCdf" /\ in.mu = Undef /\ in.sd = Undef) =>
        /\ result = Sub(One, normCdf(Neg(in.x), Undef, Undef))
        /\ in.x = Zero => result = Half

C6_Witness ==
    /\ fn = "normCdf"
    /\ in.mu = Undef
    /\ in.sd = Undef
    /\ in.x = Fin(-1, 2)
    /\ Less(Zero, result)
    /\ Less(result, Half)

\* C7 as the specification states it: normalCdf, blackScholesCall,
\* blackScholesPut and blackScholesWarrantCall are each exposed to callers.
C7_FourFunctionsExposed ==
    imp.name \in {"normalCdf", "blackScholesCall", "blackScholesPut",
                  "blackScholesWarrantCall"} => imp.bound

\* C7, amended: the module exposes the three pricing functions
\* blackScholesCall, blackScholesPut and blackScholesWarrantCall (and
\* blackScholesCall again as its default); the normal CDF, named normCdf in
\* the module, is not exposed under either name.
C7_ThreeFunctionsExposed ==
    fn = "import" =>
        (imp.bound <=> imp.name \in {"blackScholesCall", "blackScholesPut",
                                     "blackScholesWarrantCall", "default"})

C7_Witness ==
    /\ fn = "import"
    /\ imp.name = "normCdf"
    /\ ~imp.bound

C8_Case ==
    /\ fn = "normCdf"
    /\ in.sd = Zero

\* C8 as the specification states it: normCdf(x, mu, 0) is 0, 0.5 or 1,
\* never NaN, the case mu - x = 0 included.
C8_ZeroSigmaIsZeroHalfOrOne ==
    C8_Case => result \in {Zero, Half, One}

\* C8, amended: normCdf(x, mu, 0) is 0 when mu - x > 0, 1 when mu - x < 0 and
\* NaN when mu - x = 0; it is never 0.5.
C8_ZeroSigmaValue ==
    C8_Case =>
        LET m == Sub(YieldOf(in.mu), in.x)
        IN  /\ Less(Zero, m) => result = Zero
            /\ Less(m, Zero) => result = One
            /\ m = Zero => IsNaN(result)
            /\ result # Half

C8_Witness ==
    /\ C8_Case
    /\ in.mu = One
    /\ in.x = One
    /\ IsNaN(result)

C9_Case ==
    /\ fn = "blackScholesWarrantCall"
    /\ in.q = Zero

\* C9 as the specification states it: with q = 0 the warrant price is
\* +Infinity or -Infinity for all S, K, sigma, r, t.
C9_ZeroRatioIsInfinite ==
    C9_Case => IsInf(result)

\* C9, amended: with q = 0 the warrant price is a number: the undiluted price
\* S Phi(d1) - K e^(-r t) Phi(d2) divided by zero, which is +Infinity or
\* -Infinity by the sign of the undiluted price when that is not zero and
\* not NaN, and NaN when the undiluted price is zero or NaN.
C9_ZeroRatioValue ==
    C9_Case =>
        LET u == Sub(Mul(in.S, Phi(RefD1(in.S, in.K, in.sigma, in.r, in.t, Zero))),
                     Mul(StrikeTerm(in.K, in.r, in.t),
                         Phi(RefD2(in.S, in.K, in.sigma, in.r, in.t, Zero))))
        IN  /\ IsNumber(result)
            /\ (IsNaN(u) \/ u = Zero) => IsNaN(result)
            /\ Less(Zero, u) => result = PosInf
            /\ Less(u, Zero) => result = NegInf

C9_Witness ==
    /\ C9_Case
    /\ ValidInputs
    /\ IsNaN(result)

\* C10: for every q other than 0 the warrant price is the q = 1 price divided
\* by q (half of it at q = 2), and q enters nowhere else: the price is
\* (S Phi(d1) - K e^(-r t) Phi(d2)) / q with the d1, d2 of a zero yield.
C10_RatioScaling ==
    (fn = "blackScholesWarrantCall" /\ in.q \notin {Undef, Zero}) =>
        /\ result = Div(blackScholesWarrantCall(in.S, in.K, in.sigma, in.r, in.t, One),
                        in.q)
        /\ in.q = Two =>
               result = Mul(Half, blackScholesWarrantCall(in.S, in.K, in.sigma,
                                                          in.r, in.t, One))
        /\ result = Div(Sub(Mul(in.S,
                                Phi(RefD1(in.S, in.K, in.sigma, in.r, in.t, Zero))),
                            Mul(StrikeTerm(in.K, in.r, in.t),
                                Phi(RefD2(in.S, in.K, in.sigma, in.r, in.t, Zero)))),
                        in.q)

C10_Witness ==
    /\ fn = "blackScholesWarrantCall"
    /\ in.q = Two
    /\ ValidInputs
    /\ IsFin(result) /\ result.n > 0

====
